---- MODULE Spec2Model ----
(***************************************************************************)
(* Timesheet of zolten95/project-man: the time-entry server actions        *)
(* (time-actions.ts, timesheet-actions.ts) and the TimesheetPage handlers  *)
(* that reconcile an edited task/day cell against the stored entries.      *)
(*                                                                         *)
(* Time is in milliseconds since the epoch (what Date.getTime() returns). *)
(* A "YYYY-MM-DD" string is represented by the ordinal of its day since    *)
(* 1970-01-01; comparing two such strings is comparing their ordinals.     *)
(***************************************************************************)
EXTENDS Integers, Sequences, FiniteSets, TLC

VARIABLES
    entries,        \* table time_entries, in insertion (= created_at) order
    assignee,       \* table tasks: task id -> assignee_id
    authUser,       \* the session's user, or NoUser
    now,            \* the wall clock, ms
    tz,             \* the browser's offset from UTC, ms (local = UTC + tz)
    faulty,         \* whether the backend's reads can fail
    currentWeek,    \* TimesheetPage state: the date whose week is shown
    timesheetData,  \* TimesheetPage state: last loaded report, or NoData
    editingCell,    \* TimesheetPage state: <<>> or <<[taskId, date]>>
    editValue,      \* TimesheetPage state: text of the cell input
    contextMenu,    \* TimesheetPage state: <<>> or <<[taskId, date]>>
    runningTimers,  \* TimesheetPage state: task id -> <<>> or <<[startTime, elapsed]>>
    localStorage,   \* key timer_<taskId> -> <<>> or <<startTime>>
    status,         \* table tasks: task id -> status
    boardTasks,     \* MyTasksPage state: task id -> <<>> or <<status shown>>
    inflight,       \* handler invocations waiting for their server action
    tracker,        \* TimeTracker of the open task modal: <<>> or
                    \* <<[taskId, timerStartTime]>>, timerStartTime <<>> or <<ms>>
    lastOp,         \* the handler that ran last, with what it computed
    calls,          \* remote calls issued by that handler, in order
    alerts          \* messages that handler showed with alert()

vars == <<entries, assignee, authUser, now, tz, faulty, currentWeek, timesheetData,
          editingCell, editValue, contextMenu, runningTimers, localStorage, status,
          boardTasks, inflight, tracker, lastOp, calls, alerts>>

---------------------------------------------------------------------------
(* Bounds of the model *)

MaxEntries == 2     \* rows of time_entries
MaxTicks == 2       \* times the clock advances
StartDay == 3       \* day the clock starts on: 1970-01-04, a Sunday
MaxTimers == 1      \* timers running at the same time
MaxInflight == 2    \* invocations of awaiting handlers started in one run

---------------------------------------------------------------------------
(* Time *)

MsPerMinute == 1000 * 60
MsPerDay == 24 * 60 * MsPerMinute

\* The instants the clock is sampled at: 00:00:00.000 and 23:59:59.500 of
\* each day, from StartDay on.
Sample(k) ==
    (StartDay + (k \div 2)) * MsPerDay + (IF k % 2 = 0 THEN 0 ELSE MsPerDay - 500)

Instants == {Sample(k) : k \in 0..MaxTicks}

\* Offsets of the browser's time zone: UTC and UTC+2.
TzOffsets == {0, 2 * 60 * MsPerMinute}

\* new Date(x).toISOString().split('T')[0]: the UTC calendar day of an instant
ISODate(ms) == ms \div MsPerDay

\* new Date(date + 'T00:00:00'): midnight of the day in the browser's zone
LocalMidnight(date) == date * MsPerDay - tz

\* Date.prototype.getDay() in the browser's zone (1970-01-01 was a Thursday)
LocalDay(ms) == (ms + tz) \div MsPerDay
GetDay(ms) == (LocalDay(ms) + 4) % 7

---------------------------------------------------------------------------
(* The persistence collaborator's tables *)

Me == "u1"
Other == "u2"
NoUser == "none"
Users == {Me, Other}

TaskIds == <<"A", "B">>
Tasks == {TaskIds[i] : i \in DOMAIN TaskIds}

Title == [t \in Tasks |-> IF t = "A" THEN <<"b", "a">> ELSE <<"a", "b">>]

CollationOrder == <<"a", "b">>
CharRank(c) == CHOOSE i \in DOMAIN CollationOrder : CollationOrder[i] = c

RECURSIVE LocaleCompare(_, _)
LocaleCompare(s, t) ==
    IF s = <<>> /\ t = <<>> THEN 0
    ELSE IF s = <<>> THEN 0 - 1
    ELSE IF t = <<>> THEN 1
    ELSE IF CharRank(Head(s)) < CharRank(Head(t)) THEN 0 - 1
    ELSE IF CharRank(Head(s)) > CharRank(Head(t)) THEN 1
    ELSE LocaleCompare(Tail(s), Tail(t))

\* the id the table gives a new row (a uuid in the code: any id not in use)
NewId(es) == CHOOSE i \in 1..(Len(es) + 1) :
                /\ \A k \in DOMAIN es : es[k].id # i
                /\ \A j \in 1..(i - 1) : \E k \in DOMAIN es : es[k].id = j

RECURSIVE SumMinutes(_)
SumMinutes(es) == IF es = <<>> THEN 0 ELSE Head(es).minutes + SumMinutes(Tail(es))

---------------------------------------------------------------------------
(* getTimesheetData: the aggregator *)

Get0(m, k) == IF k \in DOMAIN m THEN m[k] ELSE 0
Put(m, k, v) == [x \in (DOMAIN m) \cup {k} |-> IF x = k THEN v ELSE m[x]]
EmptyMap == [x \in {} |-> 0]

EntryDate(e) ==
    IF e.started_at # <<>> THEN ISODate(e.started_at[1]) ELSE ISODate(e.created_at)

SeedRow(t) ==
    [task_id |-> t, task_title |-> Title[t], assignee_id |-> assignee[t],
     daily_time |-> EmptyMap, total_minutes |-> 0]

RECURSIVE SeedRowsTracked(_, _)
SeedRowsTracked(ts, user) ==
    IF ts = <<>> THEN <<>>
    ELSE IF assignee[Head(ts)] = user
            /\ \E k \in DOMAIN entries : entries[k].task_id = Head(ts)
         THEN <<SeedRow(Head(ts))>> \o SeedRowsTracked(Tail(ts), user)
         ELSE SeedRowsTracked(Tail(ts), user)

RECURSIVE SeedRows(_, _)
SeedRows(ts, user) ==
    IF ts = <<>> THEN <<>>
    ELSE IF assignee[Head(ts)] = user
         THEN <<SeedRow(Head(ts))>> \o SeedRows(Tail(ts), user)
         ELSE SeedRows(Tail(ts), user)

AddToRowTotalOnly(r, d, m) ==
    [r EXCEPT !.total_minutes = @ + m]

AddToRow(r, d, m) ==
    [r EXCEPT !.daily_time = Put(@, d, Get0(@, d) + m), !.total_minutes = @ + m]

ProcessEntryAssignedOnly(acc, e, startDate, endDate) ==
    LET d == EntryDate(e) IN
    IF d >= startDate /\ d <= endDate
       /\ \E i \in DOMAIN acc.rows : acc.rows[i].task_id = e.task_id
    THEN [rows |-> [i \in DOMAIN acc.rows |->
                      IF acc.rows[i].task_id = e.task_id
                      THEN AddToRow(acc.rows[i], d, e.minutes) ELSE acc.rows[i]],
          dailyTotals |-> Put(acc.dailyTotals, d, Get0(acc.dailyTotals, d) + e.minutes)]
    ELSE acc

ProcessEntryExclusiveEnd(acc, e, startDate, endDate) ==
    LET d == EntryDate(e) IN
    IF d >= startDate /\ d < endDate
    THEN IF \E i \in DOMAIN acc.rows : acc.rows[i].task_id = e.task_id
         THEN [rows |-> [i \in DOMAIN acc.rows |->
                           IF acc.rows[i].task_id = e.task_id
                           THEN AddToRow(acc.rows[i], d, e.minutes) ELSE acc.rows[i]],
               dailyTotals |-> Put(acc.dailyTotals, d, Get0(acc.dailyTotals, d) + e.minutes)]
         ELSE [acc EXCEPT !.dailyTotals = Put(@, d, Get0(@, d) + e.minutes)]
    ELSE acc

ProcessEntryFirstRow(acc, e, startDate, endDate) ==
    LET d == EntryDate(e) IN
    IF d >= startDate /\ d <= endDate
    THEN [rows |-> [i \in DOMAIN acc.rows |->
                      IF acc.rows[i].task_id = e.task_id
                         \/ (i = 1 /\ \A j \in DOMAIN acc.rows :
                                          acc.rows[j].task_id # e.task_id)
                      THEN AddToRow(acc.rows[i], d, e.minutes) ELSE acc.rows[i]],
          dailyTotals |-> Put(acc.dailyTotals, d, Get0(acc.dailyTotals, d) + e.minutes)]
    ELSE acc

ProcessEntry(acc, e, startDate, endDate) ==
    LET d == EntryDate(e) IN
    IF d >= startDate /\ d <= endDate
    THEN IF \E i \in DOMAIN acc.rows : acc.rows[i].task_id = e.task_id
         THEN [rows |-> [i \in DOMAIN acc.rows |->
                           IF acc.rows[i].task_id = e.task_id
                           THEN AddToRow(acc.rows[i], d, e.minutes) ELSE acc.rows[i]],
               dailyTotals |-> Put(acc.dailyTotals, d, Get0(acc.dailyTotals, d) + e.minutes)]
         ELSE [acc EXCEPT !.dailyTotals = Put(@, d, Get0(@, d) + e.minutes)]
    ELSE acc

RECURSIVE ProcessEntries(_, _, _, _)
ProcessEntries(es, acc, startDate, endDate) ==
    IF es = <<>> THEN acc
    ELSE ProcessEntries(Tail(es), ProcessEntry(acc, Head(es), startDate, endDate),
                        startDate, endDate)

CompareRowsAscending(a, b) ==
    IF b.total_minutes # a.total_minutes THEN a.total_minutes - b.total_minutes
    ELSE LocaleCompare(a.task_title, b.task_title)

CompareRows(a, b) ==
    IF b.total_minutes # a.total_minutes THEN b.total_minutes - a.total_minutes
    ELSE LocaleCompare(a.task_title, b.task_title)

RECURSIVE InsertRow(_, _)
InsertRow(sorted, r) ==
    IF sorted = <<>> THEN <<r>>
    ELSE IF CompareRows(Head(sorted), r) <= 0
         THEN <<Head(sorted)>> \o InsertRow(Tail(sorted), r)
         ELSE <<r>> \o sorted

RECURSIVE SortRows(_)
SortRows(rows) ==
    IF rows = <<>> THEN <<>>
    ELSE InsertRow(SortRows(SubSeq(rows, 1, Len(rows) - 1)), rows[Len(rows)])

RECURSIVE SumValues(_)
SumValues(m) ==
    IF DOMAIN m = {} THEN 0
    ELSE LET k == CHOOSE x \in DOMAIN m : TRUE
         IN m[k] + SumValues([x \in (DOMAIN m) \ {k} |-> m[x]])

EntriesOf(es, user) == SelectSeq(es, LAMBDA e : e.user_id = user)

\* The report getTimesheetData returns to `user` for [startDate, endDate] when
\* the table time_entries holds es
TimesheetReport(es, user, startDate, endDate) ==
    LET acc == ProcessEntries(EntriesOf(es, user),
                              [rows |-> SeedRows(TaskIds, user), dailyTotals |-> EmptyMap],
                              startDate, endDate)
    IN [tasks |-> SortRows(acc.rows),
        daily_totals |-> acc.dailyTotals,
        week_total |-> SumValues(acc.dailyTotals)]

---------------------------------------------------------------------------
(* The server actions that write time_entries *)

NoError == "ok"

TaskRow(taskId) == IF taskId \in Tasks THEN <<assignee[taskId]>> ELSE <<>>

AddManualTimeEntryUnchecked(es, taskId, inputMinutes, description, dbFails) ==
    IF authUser = NoUser THEN [error |-> "Not authenticated", entries |-> es]
    ELSE LET minutes == IF inputMinutes < 1 THEN 1 ELSE inputMinutes IN
         IF dbFails THEN [error |-> "insert failed", entries |-> es]
         ELSE [error |-> NoError,
               entries |-> Append(es,
                   [id |-> NewId(es),
                    task_id |-> taskId, user_id |-> authUser, minutes |-> minutes,
                    started_at |-> <<>>, created_at |-> now])]

\* addManualTimeEntry(input) run against table es; dbFails: the insert errs.
\* A row keeps the columns the modelled code reads back; the description is
\* written and never read, and is kept in the record of the call.
AddManualTimeEntry(es, taskId, inputMinutes, description, dbFails) ==
    IF authUser = NoUser THEN [error |-> "Not authenticated", entries |-> es]
    ELSE IF TaskRow(taskId) = <<>> \/ TaskRow(taskId)[1] # authUser
    THEN [error |-> "Not authorized to track time for this task", entries |-> es]
    ELSE LET minutes == IF inputMinutes < 1 THEN 1 ELSE inputMinutes IN
         IF dbFails THEN [error |-> "insert failed", entries |-> es]
         ELSE [error |-> NoError,
               entries |-> Append(es,
                   [id |-> NewId(es),
                    task_id |-> taskId, user_id |-> authUser, minutes |-> minutes,
                    started_at |-> <<>>, created_at |-> now])]

\* Math.round(x / (1000 * 60)): the nearest integer, a half going up
RoundMinutes(ms) == (ms + (MsPerMinute \div 2)) \div MsPerMinute

StopTimerFromElapsed(es, taskId, startedAt, dbFails) ==
    IF authUser = NoUser THEN [error |-> "Not authenticated", entries |-> es]
    ELSE IF TaskRow(taskId) = <<>> \/ TaskRow(taskId)[1] # authUser
    THEN [error |-> "Not authorized to track time for this task", entries |-> es]
    ELSE LET calculatedMinutes == IF runningTimers[taskId] = <<>> THEN 0
                                  ELSE runningTimers[taskId][1].elapsed \div 60
             minutes == IF calculatedMinutes < 1 THEN 1 ELSE calculatedMinutes IN
         IF dbFails THEN [error |-> "insert failed", entries |-> es]
         ELSE [error |-> NoError,
               entries |-> Append(es,
                   [id |-> NewId(es),
                    task_id |-> taskId, user_id |-> authUser, minutes |-> minutes,
                    started_at |-> <<startedAt>>, created_at |-> now])]

StopTimerNoMinimum(es, taskId, startedAt, dbFails) ==
    IF authUser = NoUser THEN [error |-> "Not authenticated", entries |-> es]
    ELSE IF TaskRow(taskId) = <<>> \/ TaskRow(taskId)[1] # authUser
    THEN [error |-> "Not authorized to track time for this task", entries |-> es]
    ELSE LET minutes == RoundMinutes(now - startedAt) IN
         IF dbFails THEN [error |-> "insert failed", entries |-> es]
         ELSE [error |-> NoError,
               entries |-> Append(es,
                   [id |-> NewId(es),
                    task_id |-> taskId, user_id |-> authUser, minutes |-> minutes,
                    started_at |-> <<startedAt>>, created_at |-> now])]

\* stopTimer(taskId, startedAt) run against table es
StopTimer(es, taskId, startedAt, dbFails) ==
    IF authUser = NoUser THEN [error |-> "Not authenticated", entries |-> es]
    ELSE IF TaskRow(taskId) = <<>> \/ TaskRow(taskId)[1] # authUser
    THEN [error |-> "Not authorized to track time for this task", entries |-> es]
    ELSE LET calculatedMinutes == RoundMinutes(now - startedAt)
             minutes == IF calculatedMinutes < 1 THEN 1 ELSE calculatedMinutes IN
         IF dbFails THEN [error |-> "insert failed", entries |-> es]
         ELSE [error |-> NoError,
               entries |-> Append(es,
                   [id |-> NewId(es),
                    task_id |-> taskId, user_id |-> authUser, minutes |-> minutes,
                    started_at |-> <<startedAt>>, created_at |-> now])]

DeleteTimeEntryAnyOwner(es, timeEntryId, dbFails) ==
    IF authUser = NoUser THEN [error |-> "Not authenticated", entries |-> es]
    ELSE IF ~\E k \in DOMAIN es : es[k].id = timeEntryId
    THEN [error |-> "Time entry not found", entries |-> es]
    ELSE IF dbFails THEN [error |-> "delete failed", entries |-> es]
    ELSE [error |-> NoError,
          entries |-> SelectSeq(es, LAMBDA e : e.id # timeEntryId)]

\* deleteTimeEntry(timeEntryId) run against table es
DeleteTimeEntry(es, timeEntryId, dbFails) ==
    IF authUser = NoUser THEN [error |-> "Not authenticated", entries |-> es]
    ELSE IF ~\E k \in DOMAIN es : es[k].id = timeEntryId
    THEN [error |-> "Time entry not found", entries |-> es]
    ELSE IF (CHOOSE k \in DOMAIN es : es[k].id = timeEntryId) \notin
              {k \in DOMAIN es : es[k].user_id = authUser}
    THEN [error |-> "Not authorized to delete this time entry", entries |-> es]
    ELSE IF dbFails THEN [error |-> "delete failed", entries |-> es]
    ELSE [error |-> NoError,
          entries |-> SelectSeq(es, LAMBDA e : e.id # timeEntryId)]

\* getTimesheetData(startDate, endDate) as a call: its error and its data
GetTimesheetDataAnonymous(es, startDate, endDate, dbFails) ==
    IF dbFails THEN [error |-> "select failed", data |-> <<>>]
    ELSE [error |-> NoError, data |-> TimesheetReport(es, authUser, startDate, endDate)]

GetTimesheetData(es, startDate, endDate, dbFails) ==
    IF authUser = NoUser THEN [error |-> "Not authenticated", data |-> <<>>]
    ELSE IF dbFails THEN [error |-> "select failed", data |-> <<>>]
    ELSE [error |-> NoError, data |-> TimesheetReport(es, authUser, startDate, endDate)]

---------------------------------------------------------------------------
(* The server action that writes tasks.status *)

Statuses == {"todo", "in_progress", "in_review", "complete"}

\* table tasks: task id -> creator_id
Creator == [t \in Tasks |-> IF t = "A" THEN Me ELSE Other]

UpdateTaskStatusAnyone(st, taskId, newStatus, dbFails) ==
    IF authUser = NoUser THEN [error |-> "Not authenticated", status |-> st]
    ELSE IF taskId \notin Tasks
    THEN [error |-> "Not authorized to update this task", status |-> st]
    ELSE IF dbFails THEN [error |-> "update failed", status |-> st]
    ELSE [error |-> NoError, status |-> [st EXCEPT ![taskId] = newStatus]]

\* updateTaskStatus(taskId, status) run against the status column st
UpdateTaskStatus(st, taskId, newStatus, dbFails) ==
    IF authUser = NoUser THEN [error |-> "Not authenticated", status |-> st]
    ELSE IF taskId \notin Tasks
            \/ (assignee[taskId] # authUser /\ Creator[taskId] # authUser)
    THEN [error |-> "Not authorized to update this task", status |-> st]
    ELSE IF dbFails THEN [error |-> "update failed", status |-> st]
    ELSE [error |-> NoError, status |-> [st EXCEPT ![taskId] = newStatus]]

---------------------------------------------------------------------------
(* TimesheetPage: the displayed week *)

\* getWeekDates(date): local Sunday 00:00:00.000 .. local Saturday
\* 23:59:59.999, and the local midnights of the seven days
WeekStart(date) == (LocalDay(date) - GetDay(date)) * MsPerDay - tz
WeekEnd(date) == (LocalDay(date) - GetDay(date) + 6) * MsPerDay + (MsPerDay - 1) - tz
WeekDates(date) ==
    [i \in 1..7 |-> (LocalDay(date) - GetDay(date) + (i - 1)) * MsPerDay - tz]

startDateStr == ISODate(WeekStart(currentWeek))
endDateStr == ISODate(WeekEnd(currentWeek))

\* the dateStr of the day columns
ColumnDates == {ISODate(WeekDates(currentWeek)[i]) : i \in 1..7}

NoData == <<>>

\* timesheetData?.tasks.find(t => t.task_id === taskId)?.daily_time[date] || 0
CellMinutes(data, taskId, date) ==
    IF data = NoData THEN 0
    ELSE IF ~\E i \in DOMAIN data.tasks : data.tasks[i].task_id = taskId THEN 0
    ELSE LET i == CHOOSE j \in DOMAIN data.tasks :
                     /\ data.tasks[j].task_id = taskId
                     /\ \A k \in 1..(j - 1) : data.tasks[k].task_id # taskId
         IN Get0(data.tasks[i].daily_time, date)

\* the rows rendered: their task ids
ShownTasks == IF timesheetData = NoData THEN {}
              ELSE {timesheetData.tasks[i].task_id : i \in DOMAIN timesheetData.tasks}

---------------------------------------------------------------------------
(* TimesheetPage: the text of a cell *)

Digits == <<"0", "1", "2", "3", "4", "5", "6", "7", "8", "9">>
IsDigit(c) == \E i \in DOMAIN Digits : Digits[i] = c
DigitVal(c) == (CHOOSE i \in DOMAIN Digits : Digits[i] = c) - 1

\* Number.prototype.toString() of a natural number
RECURSIVE NumToString(_)
NumToString(n) == IF n < 10 THEN <<Digits[n + 1]>>
               ELSE NumToString(n \div 10) \o <<Digits[(n % 10) + 1]>>

\* String.prototype.padStart(2, '0')
PadStart2(s) == IF Len(s) < 2 THEN <<"0">> \o s ELSE s

\* the value handleCellClick puts into the input
FormatCell(minutes) ==
    LET hours == minutes \div 60
        mins == minutes % 60
    IN IF hours > 0 \/ mins > 0
       THEN NumToString(hours) \o <<":">> \o PadStart2(NumToString(mins))
       ELSE <<>>

\* String.prototype.split(':')
RECURSIVE SplitColon(_, _)
SplitColon(s, cur) ==
    IF s = <<>> THEN <<cur>>
    ELSE IF Head(s) = ":" THEN <<cur>> \o SplitColon(Tail(s), <<>>)
    ELSE SplitColon(Tail(s), Append(cur, Head(s)))

\* what a missing array element converts to when parseInt makes it a string
Undefined == <<"u", "n", "d", "e", "f", "i", "n", "e", "d">>

RECURSIVE SkipSpaces(_)
SkipSpaces(s) == IF s # <<>> /\ Head(s) = " " THEN SkipSpaces(Tail(s)) ELSE s

RECURSIVE DigitPrefix(_, _)
DigitPrefix(s, acc) ==
    IF s # <<>> /\ IsDigit(Head(s))
    THEN DigitPrefix(Tail(s), <<acc[1] * 10 + DigitVal(Head(s)), TRUE>>)
    ELSE acc

\* parseInt(s): <<n>>, or <<>> for NaN
ParseInt(s) ==
    LET t == SkipSpaces(s)
        neg == t # <<>> /\ Head(t) = "-"
        body == IF t # <<>> /\ Head(t) \in {"-", "+"} THEN Tail(t) ELSE t
        r == DigitPrefix(body, <<0, FALSE>>)
    IN IF ~r[2] THEN <<>> ELSE IF neg THEN <<0 - r[1]>> ELSE <<r[1]>>

\* x || 0 for a number or NaN
OrZero(x) == IF x = <<>> THEN 0 ELSE x[1]

\* hours * 60 + minutes of handleCellSave
ParseTotalMinutes(text) ==
    LET parts == SplitColon(text, <<>>)
        hoursStr == parts[1]
        minsStr == IF Len(parts) >= 2 THEN parts[2] ELSE Undefined
    IN OrZero(ParseInt(hoursStr)) * 60 + OrZero(ParseInt(minsStr))

\* half a minute, as typed: 0:0.5
HalfMinute == <<"0", ":", "0", ".", "5">>

\* texts typed into a cell: 0:30, 1:30, 0:00, abc, -1:30, 0:0.5
TypedValues ==
    { <<"0", ":", "3", "0">>, <<"1", ":", "3", "0">>, <<"0", ":", "0", "0">>,
      <<"a", "b", "c">>, <<"-", "1", ":", "3", "0">>, HalfMinute }

---------------------------------------------------------------------------
(* TimesheetPage: the entries of a cell, as the page selects them *)

\* new Date(entry.started_at) or new Date(entry.created_at)
EntryInstant(e) == IF e.started_at # <<>> THEN e.started_at[1] ELSE e.created_at

\* entryDate >= dateStart && entryDate <= dateEnd, with
\* dateStart = new Date(date + 'T00:00:00'), dateEnd = new Date(date + 'T23:59:59')
MatchesDate(e, date) ==
    /\ EntryInstant(e) >= LocalMidnight(date)
    /\ EntryInstant(e) <= LocalMidnight(date) + (MsPerDay - 1000)

\* from('time_entries').eq('task_id', taskId).eq('user_id', user.id), filtered
EntriesToDelete(es, taskId, user, date) ==
    SelectSeq(es, LAMBDA e : e.task_id = taskId /\ e.user_id = user /\ MatchesDate(e, date))

Ids(es) == [i \in DOMAIN es |-> es[i].id]
IdSet(es) == {es[i].id : i \in DOMAIN es}

DeleteCall(id, error) == [op |-> "deleteTimeEntry", id |-> id, error |-> error]
AddCall(taskId, minutes, date, error) ==
    [op |-> "addManualTimeEntry", task_id |-> taskId, minutes |-> minutes,
     description |-> <<"Timesheet entry for", date>>, error |-> error]
PlainCall(op) == [op |-> op]

\* for (const entry of entriesToDelete) { await deleteTimeEntry(entry.id); }
RECURSIVE DeleteEach(_, _, _)
DeleteEach(ids, es, failIds) ==
    IF ids = <<>> THEN [entries |-> es, calls |-> <<>>]
    ELSE LET r == DeleteTimeEntry(es, Head(ids), Head(ids) \in failIds)
             rest == DeleteEach(Tail(ids), r.entries, failIds)
         IN [entries |-> rest.entries,
             calls |-> <<DeleteCall(Head(ids), r.error)>> \o rest.calls]

\* the same loop with: if (result.error) { alert(result.error); break; }
RECURSIVE DeleteUntilError(_, _, _)
DeleteUntilError(ids, es, failIds) ==
    IF ids = <<>> THEN [entries |-> es, calls |-> <<>>, alerts |-> <<>>]
    ELSE LET r == DeleteTimeEntry(es, Head(ids), Head(ids) \in failIds) IN
         IF r.error # NoError
         THEN [entries |-> r.entries, calls |-> <<DeleteCall(Head(ids), r.error)>>,
               alerts |-> <<r.error>>]
         ELSE LET rest == DeleteUntilError(Tail(ids), r.entries, failIds)
              IN [rest EXCEPT !.calls = <<DeleteCall(Head(ids), r.error)>> \o @]

\* const difference = totalMinutes - currentMinutes
DifferenceFromZero(totalMinutes, currentMinutes) == totalMinutes

Difference(totalMinutes, currentMinutes) == totalMinutes - currentMinutes

\* the insert of handleCellSave, with its alert on error
AddForCell(es, cell, minutes, insertFails) ==
    LET r == AddManualTimeEntry(es, cell.taskId, minutes,
                                <<"Timesheet entry for", cell.date>>, insertFails)
    IN [entries |-> r.entries,
        calls |-> <<AddCall(cell.taskId, minutes, cell.date, r.error)>>,
        alerts |-> IF r.error # NoError THEN <<r.error>> ELSE <<>>]

ReconcileAlwaysReplace(es, cell, totalMinutes, difference, failIds, selectFails, insertFails) ==
    LET toDelete == IF selectFails THEN <<>>
                    ELSE Ids(EntriesToDelete(es, cell.taskId, authUser, cell.date))
        del == DeleteEach(toDelete, es, failIds)
        add == AddForCell(del.entries, cell, totalMinutes, insertFails)
    IN [entries |-> add.entries,
        calls |-> <<PlainCall("auth.getUser"), PlainCall("select time_entries")>>
                  \o del.calls \o add.calls,
        alerts |-> add.alerts]

\* handleCellSave, lines 774-829: the remote calls of one edit with
\* difference # 0, before the reload
Reconcile(es, cell, totalMinutes, difference, failIds, selectFails, insertFails) ==
    IF difference < 0
    THEN IF authUser = NoUser
         THEN [entries |-> es, calls |-> <<PlainCall("auth.getUser")>>, alerts |-> <<>>]
         ELSE LET toDelete == IF selectFails THEN <<>>
                              ELSE Ids(EntriesToDelete(es, cell.taskId, authUser, cell.date))
                  del == DeleteEach(toDelete, es, failIds)
                  head == <<PlainCall("auth.getUser"), PlainCall("select time_entries")>>
              IN IF totalMinutes > 0
                 THEN LET add == AddForCell(del.entries, cell, totalMinutes, insertFails)
                      IN [entries |-> add.entries,
                          calls |-> head \o del.calls \o add.calls,
                          alerts |-> add.alerts]
                 ELSE [entries |-> del.entries, calls |-> head \o del.calls,
                       alerts |-> <<>>]
    ELSE AddForCell(es, cell, difference, insertFails)

\* whether a read (getTimesheetData, the page's select of time_entries) fails:
\* the outcomes the backend allows
ReadFaults == IF faulty THEN BOOLEAN ELSE {FALSE}

ReloadedOnlyFirst(es, reloadFails) ==
    IF authUser = NoUser \/ reloadFails \/ timesheetData # NoData THEN timesheetData
    ELSE TimesheetReport(es, authUser, startDateStr, endDateStr)

ReloadedOntoLast(es, reloadFails) ==
    IF authUser = NoUser \/ reloadFails THEN timesheetData
    ELSE LET fresh == TimesheetReport(es, authUser, startDateStr, endDateStr)
         IN IF timesheetData = NoData THEN fresh
            ELSE [fresh EXCEPT !.week_total = @ + timesheetData.week_total]

\* loadTimesheetData: the report shown after a reload of table es
Reloaded(es, reloadFails) ==
    IF authUser = NoUser \/ reloadFails THEN timesheetData
    ELSE TimesheetReport(es, authUser, startDateStr, endDateStr)

---------------------------------------------------------------------------
(* Initial state: the page has just been mounted, nothing is stored yet *)

NoTimers == [t \in Tasks |-> <<>>]

\* MyTasksPage before loadTasks: tasks = []
NoBoard == [t \in Tasks |-> <<>>]

Init ==
    /\ entries = <<>>
    /\ assignee = [t \in Tasks |-> Me]
    /\ authUser = Me
    /\ tz \in TzOffsets
    /\ faulty = FALSE
    /\ now = StartDay * MsPerDay
    /\ currentWeek = now
    /\ timesheetData = NoData
    /\ editingCell = <<>>
    /\ editValue = <<>>
    /\ contextMenu = <<>>
    /\ runningTimers = NoTimers
    /\ localStorage = NoTimers
    /\ status = [t \in Tasks |-> "todo"]
    /\ boardTasks = NoBoard
    /\ inflight = <<>>
    /\ tracker = <<>>
    /\ lastOp = [name |-> "other"]
    /\ calls = <<>>
    /\ alerts = <<>>

\* a step of a handler that issues no remote call and shows no alert
Quiet(name) ==
    /\ lastOp' = [name |-> "other"]
    /\ calls' = <<>>
    /\ alerts' = <<>>

---------------------------------------------------------------------------
(* The environment *)

\* the wall clock advances to a later sampled instant
Tick ==
    /\ \E t \in Instants : t > now /\ now' = t
    /\ Quiet("Tick")
    /\ UNCHANGED <<status, boardTasks, inflight, tracker>>
    /\ UNCHANGED <<entries, assignee, authUser, tz, faulty, currentWeek, timesheetData,
                   editingCell, editValue, contextMenu, runningTimers, localStorage>>

\* a task is given to another assignee by someone else
TaskReassigned ==
    /\ \E t \in Tasks, u \in Users :
          /\ assignee[t] # u
          /\ assignee' = [assignee EXCEPT ![t] = u]
    /\ Quiet("TaskReassigned")
    /\ UNCHANGED <<status, boardTasks, inflight, tracker>>
    /\ UNCHANGED <<entries, authUser, now, tz, faulty, currentWeek, timesheetData,
                   editingCell, editValue, contextMenu, runningTimers, localStorage>>

---------------------------------------------------------------------------
(* TimesheetPage handlers *)

\* the day columns a click is modelled on: those of the days the clock reaches
ClickDates == ColumnDates \cap {t \div MsPerDay : t \in Instants}

loadTimesheetData ==
    /\ \E reloadFails \in ReadFaults : timesheetData' = Reloaded(entries, reloadFails)
    /\ Quiet("loadTimesheetData")
    /\ UNCHANGED <<status, boardTasks, inflight, tracker>>
    /\ UNCHANGED <<entries, assignee, authUser, now, tz, faulty, currentWeek, editingCell,
                   editValue, contextMenu, runningTimers, localStorage>>

\* handleCellClick with the left button
handleCellClick ==
    /\ editingCell = <<>>
    /\ contextMenu = <<>>
    /\ \E taskId \in ShownTasks, date \in ClickDates :
          /\ editValue' = FormatCell(CellMinutes(timesheetData, taskId, date))
          /\ editingCell' = <<[taskId |-> taskId, date |-> date]>>
    /\ Quiet("handleCellClick")
    /\ UNCHANGED <<status, boardTasks, inflight, tracker>>
    /\ UNCHANGED <<entries, assignee, authUser, now, tz, faulty, currentWeek, timesheetData,
                   contextMenu, runningTimers, localStorage>>

\* handleCellClick with the right button
handleCellContextMenu ==
    /\ editingCell = <<>>
    /\ contextMenu = <<>>
    /\ \E taskId \in ShownTasks, date \in ClickDates :
          /\ CellMinutes(timesheetData, taskId, date) > 0
          /\ contextMenu' = <<[taskId |-> taskId, date |-> date]>>
    /\ Quiet("handleCellContextMenu")
    /\ UNCHANGED <<status, boardTasks, inflight, tracker>>
    /\ UNCHANGED <<entries, assignee, authUser, now, tz, faulty, currentWeek, timesheetData,
                   editingCell, editValue, runningTimers, localStorage>>

\* a click beside the open context menu
closeContextMenu ==
    /\ contextMenu # <<>>
    /\ contextMenu' = <<>>
    /\ Quiet("closeContextMenu")
    /\ UNCHANGED <<status, boardTasks, inflight, tracker>>
    /\ UNCHANGED <<entries, assignee, authUser, now, tz, faulty, currentWeek, timesheetData,
                   editingCell, editValue, runningTimers, localStorage>>

\* onChange of the cell input
onChange ==
    /\ editingCell # <<>>
    /\ \E v \in TypedValues : editValue' = v
    /\ Quiet("onChange")
    /\ UNCHANGED <<status, boardTasks, inflight, tracker>>
    /\ UNCHANGED <<entries, assignee, authUser, now, tz, faulty, currentWeek, timesheetData,
                   editingCell, contextMenu, runningTimers, localStorage>>

handleCellCancel ==
    /\ editingCell # <<>>
    /\ editingCell' = <<>>
    /\ editValue' = <<>>
    /\ Quiet("handleCellCancel")
    /\ UNCHANGED <<status, boardTasks, inflight, tracker>>
    /\ UNCHANGED <<entries, assignee, authUser, now, tz, faulty, currentWeek, timesheetData,
                   contextMenu, runningTimers, localStorage>>

handleCellSave ==
    /\ editingCell # <<>>
    /\ LET cell == editingCell[1]
           parsed == ParseTotalMinutes(editValue)
           totalMinutes == IF parsed > 0 /\ parsed < 1 THEN 1 ELSE parsed
           currentMinutes == CellMinutes(timesheetData, cell.taskId, cell.date)
           difference == Difference(totalMinutes, currentMinutes)
           op == [name |-> "handleCellSave", taskId |-> cell.taskId, date |-> cell.date,
                  text |-> editValue, parsed |-> parsed,
                  totalMinutes |-> totalMinutes,
                  currentMinutes |-> currentMinutes, difference |-> difference]
       IN  /\ lastOp' = op
           /\ IF parsed < 0
              THEN /\ alerts' = <<"Time cannot be negative">>
                   /\ calls' = <<>>
                   /\ UNCHANGED <<entries, timesheetData, editingCell, editValue>>
              ELSE IF difference = 0
              THEN /\ alerts' = <<>>
                   /\ calls' = <<>>
                   /\ editingCell' = <<>>
                   /\ editValue' = <<>>
                   /\ UNCHANGED <<entries, timesheetData>>
              ELSE \E failIds \in SUBSET IdSet(EntriesToDelete(entries, cell.taskId,
                                                              authUser, cell.date)),
                      insertFails \in BOOLEAN, selectFails, reloadFails \in ReadFaults :
                      LET r == Reconcile(entries, cell, totalMinutes, difference,
                                         failIds, selectFails, insertFails)
                      IN /\ Len(r.entries) <= MaxEntries
                         /\ entries' = r.entries
                         /\ calls' = r.calls \o <<PlainCall("getTimesheetData")>>
                         /\ alerts' = r.alerts
                         /\ timesheetData' = Reloaded(r.entries, reloadFails)
                         /\ editingCell' = <<>>
                         /\ editValue' = <<>>
    /\ UNCHANGED <<status, boardTasks, inflight, tracker>>
    /\ UNCHANGED <<assignee, authUser, now, tz, faulty, currentWeek, contextMenu,
                   runningTimers, localStorage>>

\* the context menu's "Delete time"; confirmed: the answer to confirm()
handleDeleteTimeForDay ==
    /\ contextMenu # <<>>
    /\ LET cell == contextMenu[1] IN
       /\ lastOp' = [name |-> "handleDeleteTimeForDay", taskId |-> cell.taskId,
                     date |-> cell.date]
       /\ \E confirmed \in BOOLEAN, selectFails, reloadFails \in ReadFaults :
          IF ~confirmed \/ authUser = NoUser
          THEN /\ calls' = IF confirmed THEN <<PlainCall("auth.getUser")>> ELSE <<>>
               /\ alerts' = <<>>
               /\ UNCHANGED <<entries, timesheetData, contextMenu>>
          ELSE LET timeEntries ==
                       IF selectFails THEN <<>>
                       ELSE SelectSeq(entries, LAMBDA e :
                                e.task_id = cell.taskId /\ e.user_id = authUser)
                   head == <<PlainCall("auth.getUser"), PlainCall("select time_entries")>>
               IN IF timeEntries = <<>>
                  THEN /\ calls' = head
                       /\ alerts' = <<>>
                       /\ UNCHANGED <<entries, timesheetData, contextMenu>>
                  ELSE \E failIds \in SUBSET IdSet(timeEntries) :
                         LET r == DeleteUntilError(
                                    Ids(EntriesToDelete(timeEntries, cell.taskId,
                                                        authUser, cell.date)),
                                    entries, failIds)
                         IN /\ entries' = r.entries
                            /\ calls' = head \o r.calls \o <<PlainCall("getTimesheetData")>>
                            /\ alerts' = r.alerts
                            /\ contextMenu' = <<>>
                            /\ timesheetData' = Reloaded(r.entries, reloadFails)
    /\ UNCHANGED <<status, boardTasks, inflight, tracker>>
    /\ UNCHANGED <<assignee, authUser, now, tz, faulty, currentWeek, editingCell, editValue,
                   runningTimers, localStorage>>

Running == {t \in Tasks : runningTimers[t] # <<>>}

handleStartTimer ==
    /\ Cardinality(Running) < MaxTimers
    /\ \E taskId \in ShownTasks :
          /\ runningTimers[taskId] = <<>>
          /\ runningTimers' = [runningTimers EXCEPT
                                  ![taskId] = <<[startTime |-> now, elapsed |-> 0]>>]
          /\ localStorage' = [localStorage EXCEPT ![taskId] = <<now>>]
    /\ Quiet("handleStartTimer")
    /\ UNCHANGED <<status, boardTasks, inflight, tracker>>
    /\ UNCHANGED <<entries, assignee, authUser, now, tz, faulty, currentWeek, timesheetData,
                   editingCell, editValue, contextMenu>>

\* a stop that forgets the timer whatever stopTimer returns
handleStopTimerForgetful ==
    /\ Len(entries) < MaxEntries
    /\ \E taskId \in ShownTasks, dbFails \in BOOLEAN, reloadFails \in ReadFaults :
          /\ runningTimers[taskId] # <<>>
          /\ LET r == StopTimer(entries, taskId, runningTimers[taskId][1].startTime, dbFails) IN
             /\ lastOp' = [name |-> "handleStopTimer", taskId |-> taskId, error |-> r.error]
             /\ entries' = r.entries
             /\ runningTimers' = [runningTimers EXCEPT ![taskId] = <<>>]
             /\ localStorage' = [localStorage EXCEPT ![taskId] = <<>>]
             /\ timesheetData' = Reloaded(r.entries, reloadFails)
             /\ calls' = <<PlainCall("stopTimer")>>
             /\ alerts' = IF r.error = NoError THEN <<>> ELSE <<r.error>>
    /\ UNCHANGED <<status, boardTasks, inflight, tracker>>
    /\ UNCHANGED <<assignee, authUser, now, tz, faulty, currentWeek, editingCell, editValue,
                   contextMenu>>

handleStopTimer ==
    /\ Len(entries) < MaxEntries
    /\ \E taskId \in ShownTasks, dbFails \in BOOLEAN, reloadFails \in ReadFaults :
          /\ runningTimers[taskId] # <<>>
          /\ LET r == StopTimer(entries, taskId, runningTimers[taskId][1].startTime, dbFails) IN
             /\ lastOp' = [name |-> "handleStopTimer", taskId |-> taskId, error |-> r.error]
             /\ entries' = r.entries
             /\ IF r.error = NoError
                THEN /\ runningTimers' = [runningTimers EXCEPT ![taskId] = <<>>]
                     /\ localStorage' = [localStorage EXCEPT ![taskId] = <<>>]
                     /\ timesheetData' = Reloaded(r.entries, reloadFails)
                     /\ calls' = <<PlainCall("stopTimer"), PlainCall("getTimesheetData")>>
                     /\ alerts' = <<>>
                ELSE /\ calls' = <<PlainCall("stopTimer")>>
                     /\ alerts' = <<r.error>>
                     /\ UNCHANGED <<runningTimers, localStorage, timesheetData>>
    /\ UNCHANGED <<status, boardTasks, inflight, tracker>>
    /\ UNCHANGED <<assignee, authUser, now, tz, faulty, currentWeek, editingCell, editValue,
                   contextMenu>>

\* Math.floor((now - start) / 1000) of the tick and of loadRunningTimers
ElapsedSeconds(startTime) == (now - startTime) \div 1000

\* the callback of setInterval(..., 1000): a tick of the display
displayTick ==
    /\ runningTimers' =
          [t \in Tasks |->
             IF runningTimers[t] = <<>> THEN <<>>
             ELSE <<[runningTimers[t][1] EXCEPT
                       !.elapsed = ElapsedSeconds(runningTimers[t][1].startTime)]>>]
    /\ Quiet("displayTick")
    /\ UNCHANGED <<status, boardTasks, inflight, tracker>>
    /\ UNCHANGED <<entries, assignee, authUser, now, tz, faulty, currentWeek, timesheetData,
                   editingCell, editValue, contextMenu, localStorage>>

LoadRunningTimersRestarted ==
    [t \in Tasks |->
       IF localStorage[t] = <<>> THEN <<>>
       ELSE <<[startTime |-> now, elapsed |-> 0]>>]

\* loadRunningTimers: the timers found under the keys timer_<taskId>
LoadRunningTimers ==
    [t \in Tasks |->
       IF localStorage[t] = <<>> THEN <<>>
       ELSE <<[startTime |-> localStorage[t][1],
               elapsed |-> ElapsedSeconds(localStorage[t][1])]>>]

\* the page is loaded anew: the component's state starts over and its mount
\* effect runs loadTimesheetData and loadRunningTimers
pageReload ==
    /\ currentWeek' = now
    /\ editingCell' = <<>>
    /\ editValue' = <<>>
    /\ contextMenu' = <<>>
    /\ \E reloadFails \in ReadFaults :
          timesheetData' =
             IF authUser = NoUser \/ reloadFails THEN NoData
             ELSE TimesheetReport(entries, authUser, ISODate(WeekStart(now)),
                                  ISODate(WeekEnd(now)))
    /\ runningTimers' = LoadRunningTimers
    /\ Quiet("pageReload")
    /\ UNCHANGED <<status, boardTasks, inflight, tracker>>
    /\ UNCHANGED <<entries, assignee, authUser, now, tz, faulty, localStorage>>

---------------------------------------------------------------------------

Next ==
    \/ Tick
    \/ loadTimesheetData
    \/ handleCellClick
    \/ handleCellContextMenu
    \/ closeContextMenu
    \/ onChange
    \/ handleCellCancel
    \/ handleCellSave
    \/ handleDeleteTimeForDay

Spec == Init /\ [][Next]_vars

---------------------------------------------------------------------------
(* Properties of the cell reconciler *)

\* the last step was handleCellSave and the typed value passed validation
SavedCell == lastOp.name = "handleCellSave" /\ lastOp.parsed >= 0

\* no remote call of the last handler returned an error
AllCallsOk == \A i \in DOMAIN calls :
                 "error" \in DOMAIN calls[i] => calls[i].error = NoError

DeleteCalls == {i \in DOMAIN calls : calls[i].op = "deleteTimeEntry"}
AddCalls == {i \in DOMAIN calls : calls[i].op = "addManualTimeEntry"}

\* the report a re-aggregation of the stored entries gives for the shown week
ReAggregated == TimesheetReport(entries, authUser, startDateStr, endDateStr)

\* C2: after a cell reconciliation whose remote calls all succeed, the
\* re-aggregated daily_time[date] of the edited task equals targetMinutes.
C2_CellEqualsTarget ==
    (SavedCell /\ AllCallsOk) =>
        CellMinutes(ReAggregated, lastOp.taskId, lastOp.date) = lastOp.totalMinutes

\* C3: a cell reconciliation whose remote calls all succeed leaves every other
\* cell of the re-aggregated report as it was before the edit.
C3_OtherCellsUnchanged ==
    [][(SavedCell' /\ AllCallsOk') =>
          \A t \in Tasks, d \in ColumnDates :
             (t # lastOp'.taskId \/ d # lastOp'.date) =>
                CellMinutes(TimesheetReport(entries', authUser, startDateStr, endDateStr), t, d)
                  = CellMinutes(ReAggregated, t, d)]_vars

\* C4: when a deleteTimeEntry call of a cell reconciliation fails, no further
\* delete is issued for that edit and the error is shown to the user.
C4_AbortOnFailedDelete ==
    SavedCell =>
        \A i \in DeleteCalls :
           calls[i].error # NoError =>
              /\ \A j \in DeleteCalls : j <= i
              /\ \E k \in DOMAIN alerts : alerts[k] = calls[i].error

\* C5: with difference < 0, a delete is issued for every stored entry of the
\* caller for the task whose effective date is the edited day, every delete
\* comes before any insert, and exactly one insert of targetMinutes is issued
\* when targetMinutes > 0 and none when targetMinutes = 0.
C5_DeleteAllThenInsertOne ==
    [][(SavedCell' /\ lastOp'.difference < 0) =>
          /\ \A k \in DOMAIN entries :
                (/\ entries[k].user_id = authUser
                 /\ entries[k].task_id = lastOp'.taskId
                 /\ EntryDate(entries[k]) = lastOp'.date)
                => \E i \in DOMAIN calls' :
                      /\ calls'[i].op = "deleteTimeEntry"
                      /\ calls'[i].id = entries[k].id
          /\ \A i, j \in DOMAIN calls' :
                (calls'[i].op = "deleteTimeEntry" /\ calls'[j].op = "addManualTimeEntry")
                => i < j
          /\ Cardinality({i \in DOMAIN calls' : calls'[i].op = "addManualTimeEntry"})
               = (IF lastOp'.totalMinutes > 0 THEN 1 ELSE 0)
          /\ \A i \in DOMAIN calls' :
                calls'[i].op = "addManualTimeEntry"
                => calls'[i].minutes = lastOp'.totalMinutes]_vars

\* C6: with difference > 0, exactly one insert is issued, of minutes =
\* targetMinutes - currentMinutes for the edited task and with the description
\* 'Timesheet entry for <date>', and no delete is issued.
C6_IncreaseInsertsDifference ==
    (SavedCell /\ lastOp.totalMinutes > lastOp.currentMinutes) =>
        /\ DeleteCalls = {}
        /\ Cardinality(AddCalls) = 1
        /\ \A i \in AddCalls :
              /\ calls[i].minutes = lastOp.totalMinutes - lastOp.currentMinutes
              /\ calls[i].task_id = lastOp.taskId
              /\ calls[i].description = <<"Timesheet entry for", lastOp.date>>

\* a cell showing a positive value was raised: one insert, no delete
C6_Witness ==
    /\ SavedCell
    /\ lastOp.currentMinutes > 0
    /\ lastOp.totalMinutes > lastOp.currentMinutes
    /\ Cardinality(AddCalls) = 1
    /\ AllCallsOk

\* C7: saving a cell with the value the last-loaded report shows for it issues
\* no remote call (no delete, no insert, no reload) and changes no stored entry.
C7_NoOpIssuesNoCall ==
    [][(SavedCell'
        /\ lastOp'.totalMinutes = CellMinutes(timesheetData, lastOp'.taskId, lastOp'.date))
       => (calls' = <<>> /\ entries' = entries /\ timesheetData' = timesheetData)]_vars

\* a cell showing a positive value was saved with that value
C7_Witness ==
    /\ SavedCell
    /\ lastOp.currentMinutes > 0
    /\ lastOp.totalMinutes = lastOp.currentMinutes
    /\ calls = <<>>

\* C8: for every task and day column, the entries the page selects for
\* deletion are exactly the caller's entries the aggregator attributes to that
\* cell (those of the task whose effective date is the day).
C8_SameDateFilter ==
    \A t \in Tasks, d \in ColumnDates :
       IdSet(EntriesToDelete(entries, t, authUser, d))
         = {entries[k].id : k \in {j \in DOMAIN entries :
                                     /\ entries[j].user_id = authUser
                                     /\ entries[j].task_id = t
                                     /\ EntryDate(entries[j]) = d}}

\* the last step was a confirmed handleDeleteTimeForDay that found entries of
\* the task
DeletedDay == lastOp.name = "handleDeleteTimeForDay" /\ Len(calls) > 2

\* C9: a confirmed day-level delete inserts nothing, stops at the first failing
\* delete and shows its error, and when every delete succeeds no entry of the
\* caller for the task with that effective date is left.
C9_DayDeleteRemovesAll ==
    [][DeletedDay' =>
          /\ AddCalls' = {}
          /\ \A i \in DeleteCalls' :
                calls'[i].error # NoError =>
                   /\ \A j \in DeleteCalls' : j <= i
                   /\ alerts' = <<calls'[i].error>>
          /\ AllCallsOk' =>
                ~\E k \in DOMAIN entries' :
                    /\ entries'[k].user_id = authUser
                    /\ entries'[k].task_id = lastOp'.taskId
                    /\ EntryDate(entries'[k]) = lastOp'.date]_vars

AllDigits(s) == s # <<>> /\ \A i \in DOMAIN s : IsDigit(s[i])

\* a duration written H:MM with digits only
WellFormedDuration(text) ==
    LET parts == SplitColon(text, <<>>)
    IN Len(parts) = 2 /\ AllDigits(parts[1]) /\ AllDigits(parts[2])

\* C10: a typed value that is negative or not a duration is rejected with an
\* alert before any remote call, and the stored entries stay as they are.
C10_BadInputRejected ==
    [][(lastOp'.name = "handleCellSave"
        /\ lastOp'.text # <<>> /\ ~WellFormedDuration(lastOp'.text))
       => (alerts' # <<>> /\ calls' = <<>> /\ entries' = entries)]_vars

\* C12: saving half a minute (0:0.5) in a cell that shows 0 inserts exactly one
\* entry, of 1 minute.
C12_HalfMinuteStoredAsOne ==
    (lastOp.name = "handleCellSave" /\ lastOp.text = HalfMinute
     /\ lastOp.currentMinutes = 0) =>
        /\ Cardinality(AddCalls) = 1
        /\ \A i \in AddCalls : calls[i].minutes = 1

---------------------------------------------------------------------------
(* The aggregator over arbitrary stored entries *)

MaxStored == 2      \* rows of time_entries the aggregator is given

ManualMinutes == {1, 30}

\* rows the caller can have stored: manual entries, and timer entries whose
\* minutes are what stopTimer computes from their start and end
StoredRows ==
    {[id |-> 0, task_id |-> t, user_id |-> Me, minutes |-> m, started_at |-> <<>>,
      created_at |-> c] : t \in Tasks, m \in ManualMinutes, c \in Instants}
    \cup
    {[id |-> 0, task_id |-> t, user_id |-> Me,
      minutes |-> (IF RoundMinutes(c - st) < 1 THEN 1 ELSE RoundMinutes(c - st)),
      started_at |-> <<st>>, created_at |-> c] :
        t \in Tasks, st \in {x \in Instants : x < Sample(MaxTicks)},
        c \in Instants}

StoredTables ==
    UNION {[1..n -> StoredRows] : n \in 0..MaxStored}

InitAgg ==
    /\ \E tab \in StoredTables :
          /\ \A i \in DOMAIN tab :
                /\ tab[i].started_at # <<>> => tab[i].started_at[1] < tab[i].created_at
                /\ i > 1 => tab[i - 1].created_at <= tab[i].created_at
          /\ entries = [i \in DOMAIN tab |-> [tab[i] EXCEPT !.id = i]]
    /\ assignee \in [Tasks -> Users]
    /\ authUser = Me
    /\ tz \in TzOffsets
    /\ faulty = FALSE
    /\ now = Sample(MaxTicks)
    /\ currentWeek = now
    /\ timesheetData = NoData
    /\ editingCell = <<>>
    /\ editValue = <<>>
    /\ contextMenu = <<>>
    /\ runningTimers = NoTimers
    /\ localStorage = NoTimers
    /\ status = [t \in Tasks |-> "todo"]
    /\ boardTasks = NoBoard
    /\ inflight = <<>>
    /\ tracker = <<>>
    /\ lastOp = [name |-> "other"]
    /\ calls = <<>>
    /\ alerts = <<>>

NextAgg ==
    \/ loadTimesheetData
    \/ TaskReassigned

SpecAgg == InitAgg /\ [][NextAgg]_vars

\* the days a requested range is drawn from
RangeDays == (StartDay - 1)..(StartDay + (MaxTicks \div 2) + 1)

InRange(es, startDate, endDate) ==
    SelectSeq(es, LAMBDA e : EntryDate(e) >= startDate /\ EntryDate(e) <= endDate)

\* C1: for every range, week_total is the sum of the minutes of the caller's
\* entries whose effective date is in the range, assigned task or not.
C1_WeekTotal ==
    /\ \A s, e \in RangeDays :
          TimesheetReport(entries, authUser, s, e).week_total
            = SumMinutes(InRange(EntriesOf(entries, authUser), s, e))
    /\ timesheetData # NoData =>
          timesheetData.week_total
            = SumMinutes(InRange(EntriesOf(entries, authUser), startDateStr, endDateStr))

RECURSIVE SumRowTotals(_)
SumRowTotals(rows) ==
    IF rows = <<>> THEN 0 ELSE Head(rows).total_minutes + SumRowTotals(Tail(rows))

\* a loaded report whose week_total counts an entry of an unassigned task
\* beside an entry of an assigned one
C1_Witness ==
    /\ timesheetData # NoData
    /\ SumRowTotals(timesheetData.tasks) > 0
    /\ timesheetData.week_total > SumRowTotals(timesheetData.tasks)
    /\ \E k \in DOMAIN entries : entries[k].started_at # <<>>

---------------------------------------------------------------------------
(* The server actions called by any client *)

\* the task ids a call names: the tasks, and an id no task has
CallTaskIds == Tasks \cup {"Z"}

\* the minutes a call of addManualTimeEntry asks for
InputMinutes == {0 - 5, 0, 30}

\* the session of the browser changes: another user signs in, or nobody
SessionChanged ==
    /\ \E u \in Users \cup {NoUser} : u # authUser /\ authUser' = u
    /\ Quiet("SessionChanged")
    /\ UNCHANGED <<status, boardTasks, inflight, tracker>>
    /\ UNCHANGED <<entries, assignee, now, tz, faulty, currentWeek, timesheetData,
                   editingCell, editValue, contextMenu, runningTimers, localStorage>>

\* a call of addManualTimeEntry({task_id, minutes, description})
CallAddManualTimeEntry ==
    /\ Len(entries) < MaxEntries
    /\ \E taskId \in CallTaskIds, minutes \in InputMinutes, dbFails \in BOOLEAN :
          LET r == AddManualTimeEntry(entries, taskId, minutes, <<>>, dbFails) IN
          /\ entries' = r.entries
          /\ lastOp' = [name |-> "addManualTimeEntry", taskId |-> taskId,
                        error |-> r.error]
    /\ calls' = <<>>
    /\ alerts' = <<>>
    /\ UNCHANGED <<status, boardTasks, inflight, tracker>>
    /\ UNCHANGED <<assignee, authUser, now, tz, faulty, currentWeek, timesheetData,
                   editingCell, editValue, contextMenu, runningTimers, localStorage>>

\* a call of stopTimer(taskId, startedAt); startedAt is whatever the client
\* sends, a later instant than the server's clock included
CallStopTimer ==
    /\ Len(entries) < MaxEntries
    /\ \E taskId \in CallTaskIds, startedAt \in Instants, dbFails \in BOOLEAN :
          LET r == StopTimer(entries, taskId, startedAt, dbFails) IN
          /\ entries' = r.entries
          /\ lastOp' = [name |-> "stopTimer", taskId |-> taskId, error |-> r.error]
    /\ calls' = <<>>
    /\ alerts' = <<>>
    /\ UNCHANGED <<status, boardTasks, inflight, tracker>>
    /\ UNCHANGED <<assignee, authUser, now, tz, faulty, currentWeek, timesheetData,
                   editingCell, editValue, contextMenu, runningTimers, localStorage>>

\* a call of deleteTimeEntry(timeEntryId); 0 is the id of no row
CallDeleteTimeEntry ==
    /\ \E timeEntryId \in 0..MaxEntries, dbFails \in BOOLEAN :
          LET r == DeleteTimeEntry(entries, timeEntryId, dbFails) IN
          /\ entries' = r.entries
          /\ lastOp' = [name |-> "deleteTimeEntry", id |-> timeEntryId,
                        error |-> r.error]
    /\ calls' = <<>>
    /\ alerts' = <<>>
    /\ UNCHANGED <<status, boardTasks, inflight, tracker>>
    /\ UNCHANGED <<assignee, authUser, now, tz, faulty, currentWeek, timesheetData,
                   editingCell, editValue, contextMenu, runningTimers, localStorage>>

InitActions ==
    /\ entries = <<>>
    /\ assignee = [t \in Tasks |-> Me]
    /\ authUser = Me
    /\ tz = 0
    /\ faulty = FALSE
    /\ now = StartDay * MsPerDay
    /\ currentWeek = now
    /\ timesheetData = NoData
    /\ editingCell = <<>>
    /\ editValue = <<>>
    /\ contextMenu = <<>>
    /\ runningTimers = NoTimers
    /\ localStorage = NoTimers
    /\ status = [t \in Tasks |-> "todo"]
    /\ boardTasks = NoBoard
    /\ inflight = <<>>
    /\ tracker = <<>>
    /\ lastOp = [name |-> "other"]
    /\ calls = <<>>
    /\ alerts = <<>>

NextActions ==
    \/ Tick
    \/ TaskReassigned
    \/ SessionChanged
    \/ CallAddManualTimeEntry
    \/ CallStopTimer
    \/ CallDeleteTimeEntry

SpecActions == InitActions /\ [][NextActions]_vars

\* C11: every stored time entry has minutes >= 1.
C11_MinutesAtLeastOne ==
    \A k \in DOMAIN entries : entries[k].minutes >= 1

\* a stored timer entry whose start is not before its end, and a stored manual
\* entry, both of one minute
C11_Witness ==
    /\ \E k \in DOMAIN entries :
          /\ entries[k].started_at # <<>>
          /\ entries[k].started_at[1] >= entries[k].created_at
          /\ entries[k].minutes = 1
    /\ \E k \in DOMAIN entries :
          entries[k].started_at = <<>> /\ entries[k].minutes = 1

---------------------------------------------------------------------------
(* Properties of the report *)

\* the rows of a report that are of task t
RowsOf(report, t) == {i \in DOMAIN report.tasks : report.tasks[i].task_id = t}

\* the caller's stored entries of task t dated in the range
TaskEntriesInRange(t, startDate, endDate) ==
    SelectSeq(InRange(EntriesOf(entries, authUser), startDate, endDate),
              LAMBDA e : e.task_id = t)

\* C13: for every range, each task assigned to the caller has exactly one row
\* in the report, entries or not, no other task has a row, and the row of a
\* task with no entry in the range has total_minutes = 0 and an empty
\* daily_time.
C13_AssignedTasksOnce ==
    \A s, e \in RangeDays :
       LET report == TimesheetReport(entries, authUser, s, e) IN
       /\ \A t \in Tasks :
             Cardinality(RowsOf(report, t)) = (IF assignee[t] = authUser THEN 1 ELSE 0)
       /\ \A i \in DOMAIN report.tasks : report.tasks[i].task_id \in Tasks
       /\ \A i \in DOMAIN report.tasks :
             TaskEntriesInRange(report.tasks[i].task_id, s, e) = <<>> =>
                /\ report.tasks[i].total_minutes = 0
                /\ report.tasks[i].daily_time = EmptyMap

\* a loaded, current report with a row of a task without entries beside the
\* row of a task with time
C13_Witness ==
    /\ timesheetData # NoData
    /\ timesheetData = ReAggregated
    /\ \E i \in DOMAIN timesheetData.tasks :
          /\ timesheetData.tasks[i].total_minutes = 0
          /\ ~\E k \in DOMAIN entries :
                entries[k].task_id = timesheetData.tasks[i].task_id
    /\ \E i \in DOMAIN timesheetData.tasks :
          timesheetData.tasks[i].total_minutes > 0

\* the caller's stored entries dated d
EntriesOn(es, d) == SelectSeq(es, LAMBDA e : EntryDate(e) = d)

\* C14: for every range, daily_totals[d] is the sum of the minutes of all the
\* caller's entries dated d, those of tasks without a row included, and
\* week_total the sum over the range, while a row's daily_time[d] and
\* total_minutes sum the entries of the row's own task only.
C14_UnassignedOnlyInTotals ==
    \A s, e \in RangeDays :
       LET report == TimesheetReport(entries, authUser, s, e) IN
       /\ \A d \in s..e :
             Get0(report.daily_totals, d)
               = SumMinutes(EntriesOn(EntriesOf(entries, authUser), d))
       /\ report.week_total = SumMinutes(InRange(EntriesOf(entries, authUser), s, e))
       /\ \A i \in DOMAIN report.tasks :
             /\ report.tasks[i].total_minutes
                  = SumMinutes(TaskEntriesInRange(report.tasks[i].task_id, s, e))
             /\ \A d \in s..e :
                   Get0(report.tasks[i].daily_time, d)
                     = SumMinutes(EntriesOn(
                          TaskEntriesInRange(report.tasks[i].task_id, s, e), d))

\* a loaded, current report with a row, and an entry in its range of a task
\* that is no longer the caller's
C14_Witness ==
    /\ timesheetData # NoData
    /\ timesheetData = ReAggregated
    /\ Len(timesheetData.tasks) = 1
    /\ \E k \in DOMAIN entries :
          /\ assignee[entries[k].task_id] # authUser
          /\ EntryDate(entries[k]) \in DOMAIN timesheetData.daily_totals
          /\ timesheetData.daily_totals[EntryDate(entries[k])] >= entries[k].minutes
          /\ timesheetData.tasks[1].total_minutes
               < timesheetData.daily_totals[EntryDate(entries[k])]

\* C15: for every range, every key of daily_totals and of every row's
\* daily_time is a date of the range, and the date of every entry of the
\* caller that is dated startDate or endDate is a key of daily_totals (and of
\* the daily_time of its task's row).
C15_OnlyDatesOfRange ==
    \A s, e \in RangeDays :
       LET report == TimesheetReport(entries, authUser, s, e) IN
       /\ DOMAIN report.daily_totals \subseteq s..e
       /\ \A i \in DOMAIN report.tasks : DOMAIN report.tasks[i].daily_time \subseteq s..e
       /\ \A k \in DOMAIN entries :
             (/\ entries[k].user_id = authUser
              /\ s <= e
              /\ EntryDate(entries[k]) \in {s, e})
             => /\ EntryDate(entries[k]) \in DOMAIN report.daily_totals
                /\ report.daily_totals[EntryDate(entries[k])] >= entries[k].minutes
                /\ \A i \in RowsOf(report, entries[k].task_id) :
                      EntryDate(entries[k]) \in DOMAIN report.tasks[i].daily_time

\* a report was loaded, and of the stored entries one is dated the first day
\* of a range, one its last day and none between: the report of that range
\* has exactly these two dates; another range leaves an entry out
C15_Witness ==
    /\ timesheetData # NoData
    /\ \E s, e \in RangeDays :
          /\ s < e
          /\ \E k \in DOMAIN entries : EntryDate(entries[k]) = s
          /\ \E k \in DOMAIN entries : EntryDate(entries[k]) = e
          /\ DOMAIN TimesheetReport(entries, authUser, s, e).daily_totals = {s, e}
          /\ DOMAIN TimesheetReport(entries, authUser, s, s).daily_totals = {s}

\* C16: for every range, of two adjacent rows of the report the first has the
\* greater total_minutes, or the same total_minutes and a task_title that is
\* not after the second's.
C16_RowsSorted ==
    \A s, e \in RangeDays :
       LET rows == TimesheetReport(entries, authUser, s, e).tasks IN
       \A i \in 1..(Len(rows) - 1) :
          \/ rows[i].total_minutes > rows[i + 1].total_minutes
          \/ /\ rows[i].total_minutes = rows[i + 1].total_minutes
             /\ LocaleCompare(rows[i].task_title, rows[i + 1].task_title) <= 0

\* a loaded, current report whose first row has more minutes than its second
\* and the title that collates last, while the report of a range without
\* entries has the two rows in the order of their titles
C16_Witness ==
    /\ timesheetData # NoData
    /\ timesheetData = ReAggregated
    /\ Len(timesheetData.tasks) = 2
    /\ timesheetData.tasks[1].total_minutes > timesheetData.tasks[2].total_minutes
    /\ timesheetData.tasks[2].total_minutes > 0
    /\ LocaleCompare(timesheetData.tasks[1].task_title,
                     timesheetData.tasks[2].task_title) > 0
    /\ LET rows == TimesheetReport(entries, authUser, StartDay - 1, StartDay - 1).tasks
       IN /\ Len(rows) = 2
          /\ rows[1].total_minutes = rows[2].total_minutes
          /\ LocaleCompare(rows[1].task_title, rows[2].task_title) < 0

---------------------------------------------------------------------------
(* The timers of the page *)

NextTimers ==
    \/ Tick
    \/ loadTimesheetData
    \/ handleStartTimer
    \/ handleStopTimer
    \/ displayTick
    \/ pageReload

SpecTimers == Init /\ [][NextTimers]_vars

\* the last step was a handleStopTimer whose stopTimer call succeeded
StoppedTimer == lastOp.name = "handleStopTimer" /\ lastOp.error = NoError

\* C18: a tick of the display changes the elapsed seconds of the running
\* timers and nothing else, and the entry a stop stores has
\* minutes = max(1, round((stop time - start time) / 60000)), whatever the
\* elapsed seconds on display are.
C18_MinutesFromWallClock ==
    [][/\ displayTick =>
             /\ UNCHANGED <<entries, assignee, localStorage, timesheetData, currentWeek>>
             /\ \A t \in Tasks :
                   /\ (runningTimers'[t] = <<>>) = (runningTimers[t] = <<>>)
                   /\ runningTimers[t] # <<>> =>
                         runningTimers'[t][1].startTime = runningTimers[t][1].startTime
       /\ StoppedTimer' =>
             LET elapsedMs == now - runningTimers[lastOp'.taskId][1].startTime
                 rounded == (elapsedMs + 30000) \div 60000
             IN /\ Len(entries') = Len(entries) + 1
                /\ entries'[Len(entries')].minutes = (IF rounded < 1 THEN 1 ELSE rounded)
                /\ entries'[Len(entries')].started_at
                     = <<runningTimers[lastOp'.taskId][1].startTime>>]_vars

\* a timer that ran for most of a day was stopped and stored with its minutes
C18_Witness ==
    /\ StoppedTimer
    /\ entries[Len(entries)].task_id = lastOp.taskId
    /\ entries[Len(entries)].minutes = 1440
    /\ entries[Len(entries)].created_at - entries[Len(entries)].started_at[1]
         = MsPerDay - 500

\* the last step was a call of a server action that writes a time entry
WroteTime == lastOp.name \in {"addManualTimeEntry", "stopTimer"}

\* C19: a call of addManualTimeEntry or stopTimer by a signed-in caller who is
\* not the assignee of the task, or for a task that does not exist, returns
\* the not-authorized error and stores nothing; a call without a session stores
\* nothing; and a call that stores something stores one entry, of the task
\* named, whose user_id is the caller, the task's assignee.
C19_OnlyAssigneeTracksTime ==
    [][WroteTime' =>
          /\ (authUser # NoUser
              /\ (lastOp'.taskId \notin Tasks \/ assignee[lastOp'.taskId] # authUser))
             => /\ lastOp'.error = "Not authorized to track time for this task"
                /\ entries' = entries
          /\ authUser = NoUser => (lastOp'.error # NoError /\ entries' = entries)
          /\ entries' # entries =>
                /\ Len(entries') = Len(entries) + 1
                /\ SubSeq(entries', 1, Len(entries)) = entries
                /\ entries'[Len(entries')].user_id = authUser
                /\ entries'[Len(entries')].task_id = lastOp'.taskId
                /\ lastOp'.taskId \in Tasks
                /\ assignee[lastOp'.taskId] = authUser]_vars

\* a caller who is not the assignee of an existing task was refused, after the
\* assignee had stored time for it
C19_Witness ==
    /\ WroteTime
    /\ lastOp.error = "Not authorized to track time for this task"
    /\ lastOp.taskId \in Tasks
    /\ authUser # NoUser
    /\ assignee[lastOp.taskId] # authUser
    /\ \E k \in DOMAIN entries :
          /\ entries[k].task_id = lastOp.taskId
          /\ entries[k].user_id = assignee[lastOp.taskId]

\* C20: a running timer stays running with its startTime over every step,
\* page reloads included, except the stop of that timer whose stopTimer call
\* succeeds; after such a stop the timer is gone from the page and from
\* localStorage, and a timer that is not running stays so until it is started;
\* after a reload every running timer is on a row of the page.
C20_TimerResumedAcrossReloads ==
    [][\A t \in Tasks :
          /\ (runningTimers[t] # <<>> /\ ~(StoppedTimer' /\ lastOp'.taskId = t))
             => /\ runningTimers'[t] # <<>>
                /\ runningTimers'[t][1].startTime = runningTimers[t][1].startTime
          /\ (StoppedTimer' /\ lastOp'.taskId = t)
             => (runningTimers'[t] = <<>> /\ localStorage'[t] = <<>>)
          /\ (runningTimers[t] = <<>> /\ runningTimers'[t] # <<>>)
             => (handleStartTimer /\ runningTimers'[t][1].startTime = now)
          /\ (pageReload /\ runningTimers'[t] # <<>>) => t \in ShownTasks']_vars

\* the page was reloaded at a later time than a timer was started and shows
\* the timer with its startTime, while the timer stopped before is not running
C20_Witness ==
    /\ currentWeek > StartDay * MsPerDay
    /\ \E t \in Tasks :
          /\ runningTimers[t] # <<>>
          /\ runningTimers[t][1].startTime < currentWeek
          /\ runningTimers[t][1].elapsed > 0
          /\ localStorage[t] = <<runningTimers[t][1].startTime>>
          /\ t \in ShownTasks
    /\ \E k \in DOMAIN entries :
          /\ entries[k].started_at # <<>>
          /\ runningTimers[entries[k].task_id] = <<>>
          /\ localStorage[entries[k].task_id] = <<>>

---------------------------------------------------------------------------
(* Further properties of the page and of the server actions *)

\* C21: after a handleCellSave with difference # 0, whichever branch ran and
\* whether or not its calls succeeded, getTimesheetData is the last call, the
\* cell has left edit mode and the report shown is the aggregate of the stored
\* entries.
C21_ReloadedAfterReconcile ==
    (SavedCell /\ lastOp.difference # 0) =>
        /\ calls # <<>>
        /\ calls[Len(calls)] = PlainCall("getTimesheetData")
        /\ editingCell = <<>>
        /\ timesheetData = ReAggregated

\* a reconcile one of whose calls failed, reloaded over the entries left
C21_Witness ==
    /\ SavedCell
    /\ lastOp.difference < 0
    /\ ~AllCallsOk
    /\ entries # <<>>
    /\ timesheetData = ReAggregated
    /\ timesheetData.week_total > 0

---------------------------------------------------------------------------
(* All the server actions, called by any client *)

\* a call of getTimesheetData(startDate, endDate), for the week of the page
CallGetTimesheetData ==
    /\ \E dbFails \in BOOLEAN :
          lastOp' = [name |-> "getTimesheetData",
                     error |-> GetTimesheetData(entries, startDateStr, endDateStr,
                                                dbFails).error]
    /\ calls' = <<>>
    /\ alerts' = <<>>
    /\ UNCHANGED <<status, boardTasks, inflight, tracker>>
    /\ UNCHANGED <<entries, assignee, authUser, now, tz, faulty, currentWeek, timesheetData,
                   editingCell, editValue, contextMenu, runningTimers, localStorage>>

\* a call of updateTaskStatus(taskId, status)
CallUpdateTaskStatus ==
    /\ \E taskId \in CallTaskIds, newStatus \in Statuses, dbFails \in BOOLEAN :
          LET r == UpdateTaskStatus(status, taskId, newStatus, dbFails) IN
          /\ status' = r.status
          /\ lastOp' = [name |-> "updateTaskStatus", taskId |-> taskId,
                        newStatus |-> newStatus, error |-> r.error]
    /\ calls' = <<>>
    /\ alerts' = <<>>
    /\ UNCHANGED <<boardTasks, inflight, tracker>>
    /\ UNCHANGED <<entries, assignee, authUser, now, tz, faulty, currentWeek, timesheetData,
                   editingCell, editValue, contextMenu, runningTimers, localStorage>>

NextServer ==
    \/ SessionChanged
    \/ CallAddManualTimeEntry
    \/ CallStopTimer
    \/ CallDeleteTimeEntry
    \/ CallGetTimesheetData
    \/ CallUpdateTaskStatus

SpecServer == InitActions /\ [][NextServer]_vars

ServerActions ==
    {"addManualTimeEntry", "stopTimer", "deleteTimeEntry", "getTimesheetData",
     "updateTaskStatus"}

\* C22: a call of addManualTimeEntry, stopTimer, deleteTimeEntry,
\* getTimesheetData or updateTaskStatus without a signed-in user returns
\* 'Not authenticated' and leaves time_entries and tasks as they are.
C22_NotAuthenticated ==
    [][(lastOp'.name \in ServerActions /\ authUser = NoUser) =>
          /\ lastOp'.error = "Not authenticated"
          /\ entries' = entries
          /\ status' = status
          /\ assignee' = assignee]_vars

\* updateTaskStatus was refused for want of a session, with entries stored and
\* a status changed before
C22_Witness ==
    /\ authUser = NoUser
    /\ lastOp.name = "updateTaskStatus"
    /\ lastOp.error = "Not authenticated"
    /\ entries # <<>>
    /\ \E t \in Tasks : status[t] # "todo"

\* C23: updateTaskStatus changes the status of the task named, and of no
\* other, only when the caller is its assignee or its creator, and does not
\* refuse such a caller as unauthorized; any other signed-in caller, and a
\* call for a task that does not exist, gets the not-authorized error and the
\* stored statuses stay as they are.
C23_AssigneeOrCreatorUpdates ==
    [][lastOp'.name = "updateTaskStatus" =>
          LET t == lastOp'.taskId
              allowed == /\ authUser # NoUser
                         /\ t \in Tasks
                         /\ (assignee[t] = authUser \/ Creator[t] = authUser)
          IN /\ status' # status =>
                   (allowed /\ status' = [status EXCEPT ![t] = lastOp'.newStatus])
             /\ allowed => lastOp'.error # "Not authorized to update this task"
             /\ (allowed /\ lastOp'.error = NoError) => status'[t] = lastOp'.newStatus
             /\ (authUser # NoUser /\ ~allowed) =>
                   /\ lastOp'.error = "Not authorized to update this task"
                   /\ status' = status]_vars

\* the creator of a task assigned to somebody else has changed its status, and
\* the task that the caller neither created nor is assigned stays as it was
C23_Witness ==
    /\ lastOp.name = "updateTaskStatus"
    /\ lastOp.error = NoError
    /\ lastOp.taskId \in Tasks
    /\ Creator[lastOp.taskId] = authUser
    /\ assignee[lastOp.taskId] # authUser
    /\ status[lastOp.taskId] = "complete"
    /\ \E t \in Tasks :
          Creator[t] # authUser /\ assignee[t] # authUser /\ status[t] = "todo"

\* C24: deleteTimeEntry removes the entry whose id it is given, and no other,
\* only when that entry exists and is the caller's; for an id no entry has it
\* returns 'Time entry not found', for an entry of another user 'Not
\* authorized to delete this time entry', and then the stored entries stay as
\* they are.
C24_DeleteOwnEntryOnly ==
    [][lastOp'.name = "deleteTimeEntry" =>
          LET id == lastOp'.id
              exists == \E k \in DOMAIN entries : entries[k].id = id
              own == \E k \in DOMAIN entries :
                        entries[k].id = id /\ entries[k].user_id = authUser
          IN /\ entries' # entries =>
                   /\ authUser # NoUser
                   /\ own
                   /\ lastOp'.error = NoError
                   /\ entries' = SelectSeq(entries, LAMBDA e : e.id # id)
             /\ lastOp'.error = NoError =>
                   (own /\ ~\E k \in DOMAIN entries' : entries'[k].id = id)
             /\ (authUser # NoUser /\ ~exists) =>
                   (lastOp'.error = "Time entry not found" /\ entries' = entries)
             /\ (authUser # NoUser /\ exists /\ ~own) =>
                   /\ lastOp'.error = "Not authorized to delete this time entry"
                   /\ entries' = entries]_vars

\* a caller was refused the deletion of another user's entry, which is still
\* stored beside an entry of the caller
C24_Witness ==
    /\ lastOp.name = "deleteTimeEntry"
    /\ lastOp.error = "Not authorized to delete this time entry"
    /\ authUser # NoUser
    /\ \E k \in DOMAIN entries :
          entries[k].id = lastOp.id /\ entries[k].user_id # authUser
    /\ \E k \in DOMAIN entries : entries[k].user_id = authUser

\* C25: the entry a handleCellSave inserts for an edit of cell (task, date) is
\* of that task and has the effective date `date`.
C25_InsertedOnEditedDay ==
    [][(SavedCell' /\ \E i \in AddCalls' : calls'[i].error = NoError) =>
          /\ entries' # <<>>
          /\ entries'[Len(entries')].task_id = lastOp'.taskId
          /\ EntryDate(entries'[Len(entries')]) = lastOp'.date]_vars

---------------------------------------------------------------------------
(* handleCellSave as the two triggers of the cell input run it: onKeyDown    *)
(* (Enter) and onBlur each start an invocation, which runs to its first      *)
(* await and later, in any order, through its remote calls to its end        *)

\* the invocations of handleCellSave waiting at their first await
InflightSaves ==
    {i \in DOMAIN inflight : inflight[i].op = "handleCellSave" /\ ~inflight[i].done}

\* the invocations when invocation i has ended; those of the edit it closed
\* are marked
InvocationEnded(i) ==
    [j \in DOMAIN inflight |->
       IF j = i THEN [inflight[j] EXCEPT !.done = TRUE]
       ELSE IF inflight[j].op = "handleCellSave" THEN [inflight[j] EXCEPT !.closed = TRUE]
       ELSE inflight[j]]

\* Enter or blur in the cell input: handleCellSave up to its first await, with
\* the editingCell, editValue and timesheetData of the current render
beginCellSave ==
    /\ editingCell # <<>>
    /\ Len(inflight) < MaxInflight
    /\ LET cell == editingCell[1]
           parsed == ParseTotalMinutes(editValue)
           totalMinutes == IF parsed > 0 /\ parsed < 1 THEN 1 ELSE parsed
           currentMinutes == CellMinutes(timesheetData, cell.taskId, cell.date)
           difference == Difference(totalMinutes, currentMinutes)
       IN IF parsed < 0
          THEN /\ alerts' = <<"Time cannot be negative">>
               /\ UNCHANGED <<inflight, editingCell, editValue>>
          ELSE IF difference = 0
          THEN /\ alerts' = <<>>
               /\ editingCell' = <<>>
               /\ editValue' = <<>>
               /\ inflight' = [j \in DOMAIN inflight |->
                                 IF inflight[j].op = "handleCellSave"
                                 THEN [inflight[j] EXCEPT !.closed = TRUE]
                                 ELSE inflight[j]]
          ELSE /\ alerts' = <<>>
               /\ inflight' = Append(inflight,
                     [op |-> "handleCellSave", cell |-> cell, text |-> editValue,
                      parsed |-> parsed, totalMinutes |-> totalMinutes,
                      currentMinutes |-> currentMinutes, difference |-> difference,
                      repeat |-> \E j \in InflightSaves : ~inflight[j].closed,
                      closed |-> FALSE, done |-> FALSE])
               /\ UNCHANGED <<editingCell, editValue>>
    /\ lastOp' = [name |-> "other"]
    /\ calls' = <<>>
    /\ UNCHANGED <<status, boardTasks, tracker>>
    /\ UNCHANGED <<entries, assignee, authUser, now, tz, faulty, currentWeek, timesheetData,
                   contextMenu, runningTimers, localStorage>>

\* the rest of an invocation: lines 774-836 with the values it started with
finishCellSave ==
    /\ \E i \in InflightSaves :
          LET inv == inflight[i] IN
          \E failIds \in SUBSET IdSet(EntriesToDelete(entries, inv.cell.taskId,
                                                      authUser, inv.cell.date)),
             insertFails \in BOOLEAN, selectFails, reloadFails \in ReadFaults :
             LET r == Reconcile(entries, inv.cell, inv.totalMinutes, inv.difference,
                                failIds, selectFails, insertFails)
             IN /\ Len(r.entries) <= MaxEntries
                /\ entries' = r.entries
                /\ calls' = r.calls \o <<PlainCall("getTimesheetData")>>
                /\ alerts' = r.alerts
                /\ timesheetData' = Reloaded(r.entries, reloadFails)
                /\ inflight' = InvocationEnded(i)
                /\ lastOp' = [name |-> "handleCellSave", taskId |-> inv.cell.taskId,
                              date |-> inv.cell.date, text |-> inv.text,
                              parsed |-> inv.parsed, totalMinutes |-> inv.totalMinutes,
                              currentMinutes |-> inv.currentMinutes,
                              difference |-> inv.difference, repeat |-> inv.repeat,
                              closed |-> inv.closed]
    /\ editingCell' = <<>>
    /\ editValue' = <<>>
    /\ UNCHANGED <<status, boardTasks, tracker>>
    /\ UNCHANGED <<assignee, authUser, now, tz, faulty, currentWeek, contextMenu,
                   runningTimers, localStorage>>

NextOverlap ==
    \/ loadTimesheetData
    \/ handleCellClick
    \/ onChange
    \/ beginCellSave
    \/ finishCellSave

SpecOverlap == InitActions /\ [][NextOverlap]_vars

\* C26: of the invocations of handleCellSave that one edit starts (Enter, then
\* blur before the first has finished) only one reconciles: an invocation that
\* reaches its remote calls after another invocation of the same edit has
\* finished issues no insert and no delete.
C26_OneReconcilePerEdit ==
    (lastOp.name = "handleCellSave" /\ "closed" \in DOMAIN lastOp
     /\ lastOp.repeat /\ lastOp.closed) =>
        /\ AddCalls = {}
        /\ DeleteCalls = {}

---------------------------------------------------------------------------
(* A stop that fails *)

\* C28: when stopTimer returns an error, handleStopTimer leaves the timer
\* running: runningTimers[taskId] and the key timer_<taskId> keep the original
\* startTime and no entry is inserted; a timer and its key are removed only by
\* a stop whose stopTimer succeeded.
C28_FailedStopKeepsTimer ==
    [][/\ (lastOp'.name = "handleStopTimer" /\ lastOp'.error # NoError) =>
             LET t == lastOp'.taskId IN
             /\ runningTimers[t] # <<>>
             /\ runningTimers'[t] # <<>>
             /\ runningTimers'[t][1].startTime = runningTimers[t][1].startTime
             /\ localStorage'[t] = <<runningTimers[t][1].startTime>>
             /\ localStorage' = localStorage
             /\ entries' = entries
       /\ \A t \in Tasks :
             (localStorage[t] # <<>> /\ localStorage'[t] = <<>>) =>
                /\ lastOp'.name = "handleStopTimer"
                /\ lastOp'.taskId = t
                /\ lastOp'.error = NoError
                /\ runningTimers'[t] = <<>>]_vars

\* a stop has just failed after the clock moved on: the timer still runs from
\* its earlier start and nothing was stored
C28_Witness ==
    /\ lastOp.name = "handleStopTimer"
    /\ lastOp.error # NoError
    /\ runningTimers[lastOp.taskId] # <<>>
    /\ runningTimers[lastOp.taskId][1].startTime < now
    /\ localStorage[lastOp.taskId] = <<runningTimers[lastOp.taskId][1].startTime>>
    /\ entries = <<>>

---------------------------------------------------------------------------
(* The sums of the report *)

\* the minutes the rows of a report show on day d
RECURSIVE SumRowsOn(_, _)
SumRowsOn(rows, d) ==
    IF rows = <<>> THEN 0 ELSE Get0(Head(rows).daily_time, d) + SumRowsOn(Tail(rows), d)

\* the caller's entries of the range dated d whose task is not the caller's
UnassignedOn(startDate, endDate, d) ==
    SelectSeq(EntriesOn(InRange(EntriesOf(entries, authUser), startDate, endDate), d),
              LAMBDA x : ~(x.task_id \in Tasks /\ assignee[x.task_id] = authUser))

\* C30: for every range, each row's total_minutes is the sum of its daily_time,
\* and daily_totals[d] is the sum over the rows of daily_time[d] plus the
\* minutes of the caller's in-range entries on d of tasks not assigned to the
\* caller; so daily_totals[d] is at least the rows' sum, and equal to it when
\* every such entry is of an assigned task.
C30_RowAndDayTotals ==
    \A s, e \in RangeDays :
       LET report == TimesheetReport(entries, authUser, s, e) IN
       /\ \A i \in DOMAIN report.tasks :
             report.tasks[i].total_minutes = SumValues(report.tasks[i].daily_time)
       /\ \A d \in RangeDays :
             /\ Get0(report.daily_totals, d)
                  = SumRowsOn(report.tasks, d) + SumMinutes(UnassignedOn(s, e, d))
             /\ Get0(report.daily_totals, d) >= SumRowsOn(report.tasks, d)
             /\ UnassignedOn(s, e, d) = <<>> =>
                   Get0(report.daily_totals, d) = SumRowsOn(report.tasks, d)

\* a loaded, current report with a day on which a row shows minutes and the
\* day's total is greater, by the minutes of an entry of a task of another user
C30_Witness ==
    /\ timesheetData # NoData
    /\ timesheetData = ReAggregated
    /\ \E d \in DOMAIN timesheetData.daily_totals :
          /\ SumRowsOn(timesheetData.tasks, d) > 0
          /\ UnassignedOn(startDateStr, endDateStr, d) # <<>>
          /\ timesheetData.daily_totals[d]
               = SumRowsOn(timesheetData.tasks, d)
                 + SumMinutes(UnassignedOn(startDateStr, endDateStr, d))

---------------------------------------------------------------------------
(* The stops of a timer: the page's button and the TimeTracker of the task   *)
(* modal each call stopTimer and go on when it has returned                  *)

StopOps == {"handleStopTimer", "TimeTracker.handleStopTimer"}

\* the invocations of a stop handler waiting for stopTimer
InflightStops(op) ==
    {i \in DOMAIN inflight : inflight[i].op = op /\ ~inflight[i].done}

\* the invocations when invocation i of a stop has ended; after a stop that
\* succeeded, the waiting stops of the same timer are marked
StopEnded(i, error) ==
    [j \in DOMAIN inflight |->
       IF j = i THEN [inflight[j] EXCEPT !.done = TRUE]
       ELSE IF /\ error = NoError
               /\ inflight[j].op \in StopOps
               /\ ~inflight[j].done
               /\ inflight[j].taskId = inflight[i].taskId
               /\ inflight[j].startTime = inflight[i].startTime
            THEN [inflight[j] EXCEPT !.closed = TRUE]
            ELSE inflight[j]]

\* a click on the stop button of a row: handleStopTimer up to its await, with
\* the runningTimers of the current render
beginStopTimer ==
    /\ Len(inflight) < MaxInflight
    /\ \E taskId \in ShownTasks :
          /\ runningTimers[taskId] # <<>>
          /\ inflight' = Append(inflight,
                [op |-> "handleStopTimer", taskId |-> taskId,
                 startTime |-> runningTimers[taskId][1].startTime,
                 timers |-> runningTimers, closed |-> FALSE, done |-> FALSE])
    /\ Quiet("handleStopTimer")
    /\ UNCHANGED <<status, boardTasks, tracker>>
    /\ UNCHANGED <<entries, assignee, authUser, now, tz, faulty, currentWeek, timesheetData,
                   editingCell, editValue, contextMenu, runningTimers, localStorage>>

\* stopTimer returns to an invocation of the page's handleStopTimer
finishStopTimer ==
    /\ Len(entries) < MaxEntries
    /\ \E i \in InflightStops("handleStopTimer"), dbFails \in BOOLEAN,
          reloadFails \in ReadFaults :
          LET inv == inflight[i]
              r == StopTimer(entries, inv.taskId, inv.startTime, dbFails)
          IN /\ lastOp' = [name |-> "handleStopTimer", taskId |-> inv.taskId,
                           error |-> r.error, startTime |-> inv.startTime,
                           closed |-> inv.closed, inserted |-> r.entries # entries]
             /\ entries' = r.entries
             /\ inflight' = StopEnded(i, r.error)
             /\ IF r.error = NoError
                THEN /\ runningTimers' = [inv.timers EXCEPT ![inv.taskId] = <<>>]
                     /\ localStorage' = [localStorage EXCEPT ![inv.taskId] = <<>>]
                     /\ timesheetData' = Reloaded(r.entries, reloadFails)
                     /\ calls' = <<PlainCall("stopTimer"), PlainCall("getTimesheetData")>>
                     /\ alerts' = <<>>
                ELSE /\ calls' = <<PlainCall("stopTimer")>>
                     /\ alerts' = <<r.error>>
                     /\ UNCHANGED <<runningTimers, localStorage, timesheetData>>
    /\ UNCHANGED <<status, boardTasks, tracker>>
    /\ UNCHANGED <<assignee, authUser, now, tz, faulty, currentWeek, editingCell, editValue,
                   contextMenu>>

\* the task modal is opened from a row of the page by the task's assignee:
\* the TimeTracker mounts and reads the key timer_<taskId>
openTracker ==
    /\ tracker = <<>>
    /\ \E taskId \in ShownTasks :
          /\ assignee[taskId] = authUser
          /\ tracker' = <<[taskId |-> taskId, timerStartTime |-> localStorage[taskId],
                           loading |-> FALSE]>>
    /\ Quiet("openTracker")
    /\ UNCHANGED <<status, boardTasks, inflight>>
    /\ UNCHANGED <<entries, assignee, authUser, now, tz, faulty, currentWeek, timesheetData,
                   editingCell, editValue, contextMenu, runningTimers, localStorage>>

\* TimeTracker.handleStartTimer
trackerStartTimer ==
    /\ tracker # <<>>
    /\ tracker[1].timerStartTime = <<>>
    /\ tracker' = <<[tracker[1] EXCEPT !.timerStartTime = <<now>>]>>
    /\ localStorage' = [localStorage EXCEPT ![tracker[1].taskId] = <<now>>]
    /\ Quiet("TimeTracker.handleStartTimer")
    /\ UNCHANGED <<status, boardTasks, inflight>>
    /\ UNCHANGED <<entries, assignee, authUser, now, tz, faulty, currentWeek, timesheetData,
                   editingCell, editValue, contextMenu, runningTimers>>

\* a click on the TimeTracker's stop button, which is disabled while loading:
\* handleStopTimer up to its await
beginTrackerStop ==
    /\ Len(inflight) < MaxInflight
    /\ tracker # <<>>
    /\ tracker[1].timerStartTime # <<>>
    /\ ~tracker[1].loading
    /\ tracker' = <<[tracker[1] EXCEPT !.loading = TRUE]>>
    /\ inflight' = Append(inflight,
          [op |-> "TimeTracker.handleStopTimer", taskId |-> tracker[1].taskId,
           startTime |-> tracker[1].timerStartTime[1],
           timers |-> NoTimers, closed |-> FALSE, done |-> FALSE])
    /\ Quiet("TimeTracker.handleStopTimer")
    /\ UNCHANGED <<status, boardTasks>>
    /\ UNCHANGED <<entries, assignee, authUser, now, tz, faulty, currentWeek, timesheetData,
                   editingCell, editValue, contextMenu, runningTimers, localStorage>>

\* stopTimer returns to an invocation of the TimeTracker's handleStopTimer
finishTrackerStop ==
    /\ Len(entries) < MaxEntries
    /\ \E i \in InflightStops("TimeTracker.handleStopTimer"), dbFails \in BOOLEAN :
          LET inv == inflight[i]
              r == StopTimer(entries, inv.taskId, inv.startTime, dbFails)
          IN /\ lastOp' = [name |-> "TimeTracker.handleStopTimer", taskId |-> inv.taskId,
                           error |-> r.error, startTime |-> inv.startTime,
                           closed |-> inv.closed, inserted |-> r.entries # entries]
             /\ entries' = r.entries
             /\ inflight' = StopEnded(i, r.error)
             /\ calls' = <<PlainCall("stopTimer")>>
             /\ alerts' = <<>>
             /\ IF r.error = NoError
                THEN /\ tracker' = <<[tracker[1] EXCEPT !.timerStartTime = <<>>,
                                                         !.loading = FALSE]>>
                     /\ localStorage' = [localStorage EXCEPT ![inv.taskId] = <<>>]
                ELSE /\ tracker' = <<[tracker[1] EXCEPT !.loading = FALSE]>>
                     /\ UNCHANGED localStorage
    /\ UNCHANGED <<status, boardTasks>>
    /\ UNCHANGED <<assignee, authUser, now, tz, faulty, currentWeek, timesheetData,
                   editingCell, editValue, contextMenu, runningTimers>>

NextStops ==
    \/ Tick
    \/ loadTimesheetData
    \/ handleStartTimer
    \/ beginStopTimer
    \/ finishStopTimer
    \/ openTracker
    \/ trackerStartTimer
    \/ beginTrackerStop
    \/ finishTrackerStop

SpecStops == InitActions /\ [][NextStops]_vars

\* C27: a timer that was started produces at most one time entry: a stop that
\* returns after another stop of the same timer has succeeded, from the page
\* or from the TimeTracker, inserts no entry.
C27_OneEntryPerTimer ==
    (lastOp.name \in StopOps /\ "closed" \in DOMAIN lastOp /\ lastOp.closed) =>
        ~lastOp.inserted

---------------------------------------------------------------------------
(* MyTasksPage: the board of the caller's tasks *)

\* the mount effect runs loadTasks: the tasks assigned to the user, with
\* their stored status
loadTasks ==
    /\ boardTasks = NoBoard
    /\ authUser # NoUser
    /\ boardTasks' = [t \in Tasks |->
                        IF assignee[t] = authUser THEN <<status[t]>> ELSE <<>>]
    /\ Quiet("loadTasks")
    /\ UNCHANGED <<status, inflight, tracker>>
    /\ UNCHANGED <<entries, assignee, authUser, now, tz, faulty, currentWeek, timesheetData,
                   editingCell, editValue, contextMenu, runningTimers, localStorage>>

\* updateTaskInState(taskId, {status}): prev.map over the shown tasks
updateTaskInState(board, taskId, st) ==
    [t \in Tasks |-> IF t = taskId /\ board[t] # <<>> THEN <<st>> ELSE board[t]]

\* the drops waiting for updateTaskStatus
InflightDrops == {i \in DOMAIN inflight : inflight[i].op = "onDrop" /\ ~inflight[i].done}

\* a card is dropped on a column: onDrop up to its await, the optimistic update
beginDrop ==
    /\ Len(inflight) < MaxInflight
    /\ \E taskId \in Tasks, column \in Statuses :
          /\ boardTasks[taskId] # <<>>
          /\ column # boardTasks[taskId][1]
          /\ boardTasks' = updateTaskInState(boardTasks, taskId, column)
          /\ inflight' = Append(inflight,
                [op |-> "onDrop", taskId |-> taskId, newStatus |-> column,
                 oldStatus |-> boardTasks[taskId][1], done |-> FALSE])
    /\ Quiet("onDrop")
    /\ UNCHANGED <<status, tracker>>
    /\ UNCHANGED <<entries, assignee, authUser, now, tz, faulty, currentWeek, timesheetData,
                   editingCell, editValue, contextMenu, runningTimers, localStorage>>

\* updateTaskStatus returns to a drop: the rollback when it failed
Rollback(board, inv, error) ==
    IF error # NoError THEN updateTaskInState(board, inv.taskId, inv.oldStatus)
    ELSE board

\* the only await of onDrop is the server action, and the calls of server
\* actions of one page are answered in the order they were sent
finishDrop ==
    /\ \E i \in InflightDrops, dbFails \in BOOLEAN :
          LET inv == inflight[i]
              r == UpdateTaskStatus(status, inv.taskId, inv.newStatus, dbFails)
          IN /\ \A j \in InflightDrops : i <= j
             /\ status' = r.status
             /\ boardTasks' = Rollback(boardTasks, inv, r.error)
             /\ inflight' = [inflight EXCEPT ![i].done = TRUE]
             /\ lastOp' = [name |-> "onDrop", taskId |-> inv.taskId,
                           newStatus |-> inv.newStatus, oldStatus |-> inv.oldStatus,
                           error |-> r.error]
             /\ calls' = <<PlainCall("updateTaskStatus")>>
             /\ alerts' = <<>>
    /\ UNCHANGED tracker
    /\ UNCHANGED <<entries, assignee, authUser, now, tz, faulty, currentWeek, timesheetData,
                   editingCell, editValue, contextMenu, runningTimers, localStorage>>

NextBoard ==
    \/ loadTasks
    \/ beginDrop
    \/ finishDrop

SpecBoard == InitActions /\ [][NextBoard]_vars

\* C29: when no updateTaskStatus call of a drop on a task is waiting, the
\* status the board shows for the task is the status the backend stores, also
\* after overlapping drops of which some failed.
C29_BoardShowsStoredStatus ==
    \A t \in Tasks :
       (boardTasks[t] # <<>> /\ ~\E i \in InflightDrops : inflight[i].taskId = t) =>
          boardTasks[t][1] = status[t]

====
